---- MODULE Spec2Model ----
(***************************************************************************)
(* A model of the file-store streaming engine of file_store/src/file_store.rs *)
(* : the paginated listing (list, list_all), the codec pipeline            *)
(* (stream_source), the fan-out fetchers (source, source_unordered,        *)
(* stream_file) and the facade calls (put, remove, get_raw).               *)
(*                                                                         *)
(* The specifications share the variables; each leaves the variables of    *)
(* the parts it does not use as they are constructed:                      *)
(*   SpecList    - FileStore::list, pulled item by item, against a paging  *)
(*                 backend                                                 *)
(*   SpecListAll - FileStore::list_all over the same listing               *)
(*   SpecCodec   - stream_source over a body that arrives in chunks        *)
(*   SpecSource  - FileStore::source / source_unordered over descriptors   *)
(*                 whose requests end in any order                         *)
(*   SpecFacade  - FileStore::put, remove and get_raw, called one after    *)
(*                 another against a backend that may fail                 *)
(*   SpecRequests - a client of any one of list, the fan-out or the facade *)
(*   SpecAbandon - list or the fan-out, which the consumer may drop before *)
(*                 its end                                                 *)
(*   SpecHint    - list over a bucket that also holds a key of a longer    *)
(*                 prefix                                                  *)
(*   SpecListPulled - list under a consumer that keeps pulling and a       *)
(*                 backend that answers every request                      *)
(*   SpecShared  - a listing beside a second listing or a source of the    *)
(*                 same store                                              *)
(*   SpecGet     - FileStore::get: get_raw, then stream_source over the    *)
(*                 body                                                    *)
(*                                                                         *)
(* The combinators of the futures, tokio-util and async-compression crates *)
(* (unfold, flat_map, try_buffered, try_buffer_unordered, try_collect,     *)
(* FramedRead, LengthDelimitedCodec) are modelled by what their poll_next  *)
(* does; one action is one poll of the outermost stream.                   *)
(***************************************************************************)
EXTENDS Integers, Sequences, FiniteSets, TLC

VARIABLES
    \* ---- listing (SpecList)
    bucketKeys,   \* the keys of the objects in the bucket, in the backend's order
    lsArgs,       \* [prefix, after, before]: the arguments of list / list_all
    ls,           \* the list stream: unfold's state and request, flat_map's inner
                  \* stream, the requests sent and the items yielded
    served,       \* every page response the backend has given, in order
    collected     \* list_all: try_collect's accumulator and the call's result

VARIABLES
    \* ---- codec pipeline (SpecCodec)
    cdFrames,     \* the frames written into the body that is read
    cdArrived,    \* how many bytes of the decompressed body have arrived
    cdEnded,      \* how the body has ended: "no" (still open), "eof", "error"
    framed,       \* FramedRead: its buffer and flags, the codec's state, the bytes read
    cdOut,        \* every item the stream has yielded so far
    cdDone        \* the stream has returned end of sequence

VARIABLES
    \* ---- fan-out (SpecSource)
    srcArgs,      \* [mode, workers]: source (ordered, 2 deep) or source_unordered(workers)
    infos,        \* the input stream: descriptors, or errors of the input
    outcome,      \* per descriptor, how its get_object request has ended, once it has
    fan           \* the fan-out stream: its place in the input, the requests in
                  \* progress, flat_map's inner stream, the requests sent and
                  \* ended, and the items yielded

lsVars == <<bucketKeys, lsArgs, ls, served, collected>>
cdVars == <<cdFrames, cdArrived, cdEnded, framed, cdOut, cdDone>>

srcVars == <<srcArgs, infos, outcome, fan>>

VARIABLES
    \* ---- facade (SpecFacade)
    store,        \* the objects of the bucket: per key its body, if it has one
    todo,         \* how many calls the client still makes
    call,         \* the call of put, remove or get_raw that awaits the backend, if any
    history,      \* the calls that have returned, in order, each with the answer
                  \* the backend gave to its request, if it sent one, and its result
    sent,         \* every request sent to the backend, in order
    samples       \* every duration sample the metrics sink has been given, in order

fcVars == <<store, todo, call, history, sent, samples>>

VARIABLES
    \* ---- a second listing of the same store (SpecShared)
    twin          \* its arguments, its stream and the answers the backend gave it

vars == <<lsVars, cdVars, srcVars, fcVars, twin>>

None == [none |-> TRUE]
Some(x) == [none |-> FALSE, val |-> x]
IsSome(o) == ~o.none

-----------------------------------------------------------------------------
(* Sequences                                                               *)

RECURSIVE Concat(_)
\* the concatenation of a sequence of sequences
Concat(ss) == IF ss = <<>> THEN <<>> ELSE Head(ss) \o Concat(Tail(ss))

RECURSIVE LexLess(_, _)
\* strict lexicographic order of two strings (sequences of byte values), the
\* order in which the backend lists keys and compares them with start_after
LexLess(a, b) ==
    IF b = <<>> THEN FALSE
    ELSE IF a = <<>> THEN TRUE
    ELSE IF Head(a) # Head(b) THEN Head(a) < Head(b)
    ELSE LexLess(Tail(a), Tail(b))

IsPrefixOf(p, s) == Len(p) <= Len(s) /\ SubSeq(s, 1, Len(p)) = p

RECURSIVE SeqsOver(_, _)
\* all sequences over S of length at most n
SeqsOver(S, n) ==
    IF n = 0 THEN {<<>>}
    ELSE LET shorter == SeqsOver(S, n - 1)
         IN  shorter \cup {Append(s, x) : s \in {t \in shorter : Len(t) = n - 1}, x \in S}

-----------------------------------------------------------------------------
(* Key codec (file_info.rs is not part of the sources at hand: modelled    *)
(* from the key grammar "<prefix>.<timestamp>", the timestamp a fixed-width *)
(* decimal number)                                                         *)

Dot == 46
Digit0 == 48
TsWidth == 2

IsDigit(c) == c >= Digit0 /\ c <= Digit0 + 9

RECURSIVE ToDigits(_, _)
\* n as w decimal digits, most significant first
ToDigits(n, w) ==
    IF w = 0 THEN <<>> ELSE Append(ToDigits(n \div 10, w - 1), Digit0 + (n % 10))

RECURSIVE FromDigits(_)
FromDigits(ds) ==
    IF ds = <<>> THEN 0
    ELSE 10 * FromDigits(SubSeq(ds, 1, Len(ds) - 1)) + (ds[Len(ds)] - Digit0)

\* FileInfo::from((prefix, timestamp)): the key derived from the pair
EncodeKey(prefix, ts) == prefix \o <<Dot>> \o ToDigits(ts, TsWidth)

\* FileInfo::matches: the key has the shape <prefix>.<timestamp>
Matches(key) ==
    /\ Len(key) >= TsWidth + 2
    /\ key[Len(key) - TsWidth] = Dot
    /\ \A i \in (Len(key) - TsWidth + 1)..Len(key) : IsDigit(key[i])
    /\ \A i \in 1..(Len(key) - TsWidth - 1) : key[i] # Dot

\* FileInfo::try_from: the descriptor of a key that matches
DecodeKey(key) ==
    [prefix    |-> SubSeq(key, 1, Len(key) - TsWidth - 1),
     timestamp |-> FromDigits(SubSeq(key, Len(key) - TsWidth + 1, Len(key))),
     key       |-> key]

-----------------------------------------------------------------------------
(* The parts a specification does not use stay as they are constructed     *)

Framed0 ==
    [buffer |-> <<>>, eof |-> FALSE, is_readable |-> FALSE, has_errored |-> FALSE,
     state |-> [head |-> TRUE, n |-> 0], read |-> 0]

IdleCodec ==
    /\ cdFrames = <<>>
    /\ cdArrived = 0
    /\ cdEnded = "no"
    /\ framed = Framed0
    /\ cdOut = <<>>
    /\ cdDone = FALSE

FileNames == {"a", "b"}

IdleFacade ==
    /\ store = [k \in FileNames |-> None]
    /\ todo = 0
    /\ call = None
    /\ history = <<>>
    /\ sent = <<>>
    /\ samples = <<>>

MaxFiles == 3       \* the bucket holds the objects 1..MaxFiles; an input names each at most once
MaxWorkers == 2     \* source_unordered is called with 1..MaxWorkers workers
MaxFaults == 1      \* at most MaxFaults input errors, failed requests and bad bodies in a run

Descs == 1..MaxFiles

Source0 ==
    [inPos |-> 0, input_done |-> FALSE, queue |-> <<>>, ready |-> <<>>, cur |-> None,
     gets |-> <<>>, ended |-> <<>>, out |-> <<>>, done |-> FALSE, dropped |-> FALSE]

IdleSource ==
    /\ srcArgs = [mode |-> "ordered", workers |-> 2]
    /\ infos = <<>>
    /\ outcome = [d \in Descs |-> "none"]
    /\ fan = Source0

-----------------------------------------------------------------------------
(* The backend (list_objects_v2 of the object store)                       *)

MaxTs == 2          \* timestamps of stored objects range over 0..MaxTs
MaxPage == 2        \* a page holds at most MaxPage entries
MaxOverlap == 1     \* a page may repeat up to MaxOverlap entries of the page before
MaxRequests == 3    \* the backend ends every listing within MaxRequests pages
MaxObjects == 2     \* the bucket holds at most MaxObjects objects

PrefixX == <<120>>          \* "x", the prefix that is listed
PrefixXY == <<120, 121>>    \* "xy", another prefix that starts with "x"
PrefixW == <<119>>          \* "w", an unrelated prefix

\* the keys an object of the bucket may have: keys of the listed prefix, keys of
\* other prefixes, and keys that are not of the key grammar
KeyUniverse ==
    {EncodeKey(PrefixX, t) : t \in 0..MaxTs}
        \cup {EncodeKey(PrefixXY, 1), EncodeKey(PrefixW, 1)}
        \cup {PrefixX \o <<Dot, Digit0 + 1>>}

RECURSIVE SortKeys(_)
\* the keys of a set in ascending lexicographic order
SortKeys(S) ==
    IF S = {} THEN <<>>
    ELSE LET least == CHOOSE k \in S : \A o \in S \ {k} : LexLess(k, o)
         IN  <<least>> \o SortKeys(S \ {least})

\* the entries a listing request selects: the keys under the prefix, after start_after
ListObjects(keys, prefix, startAfter) ==
    LET Selected(k) ==
            /\ IsPrefixOf(prefix, k)
            /\ (IsSome(startAfter) => LexLess(startAfter.val, k))
    IN  SelectSeq(keys, Selected)

Min(a, b) == IF a <= b THEN a ELSE b
Max(a, b) == IF a >= b THEN a ELSE b

\* the responses the backend may give to a page request: a failure, or the next
\* entries of the listing from the position the continuation token names (or up
\* to MaxOverlap entries before it), with a token for the rest; a response
\* without a token ends the listing
PageResponses(keys, req, nServed) ==
    LET listing == ListObjects(keys, req.prefix, req.start_after)
        at      == IF IsSome(req.continuation_token) THEN req.continuation_token.val ELSE 0
        left    == MaxRequests - nServed - 1
        Cuts    == {c \in [from : Max(0, at - MaxOverlap)..at, to : at..Len(listing), more : BOOLEAN] :
                        /\ c.to - c.from <= MaxPage
                        /\ (~c.more => c.to = Len(listing))
                        /\ (c.more => left >= 1 /\ Len(listing) - c.to <= MaxPage * left)}
    IN  {[ok |-> FALSE, contents |-> <<>>, next_continuation_token |-> None]}
        \cup
        {[ok |-> TRUE,
          contents |-> SubSeq(listing, c.from + 1, c.to),
          next_continuation_token |-> IF c.more THEN Some(c.to) ELSE None] : c \in Cuts}

-----------------------------------------------------------------------------
(* FileStore::list: unfold over the page requests, flat_map over the pages *)

\* the bucket of the store: set when the store is made, read by every request
Bucket == "bucket"

ErrItem(e) == [kind |-> "err", error |-> e]
OkItem(x) == [kind |-> "ok", val |-> x]

\* a request whose boundary key carries the timestamp without its leading zeros
ListRequestUnpadded(args) ==
    [bucket      |-> Bucket,
     prefix      |-> args.prefix,
     start_after |-> IF IsSome(args.after)
                     THEN Some(args.prefix \o <<Dot>> \o ToDigits(args.after.val, 1)) ELSE None,
     continuation_token |-> None]

\* the request built by list before the first page is asked for
ListRequest(args) ==
    [bucket      |-> Bucket,
     prefix      |-> args.prefix,
     start_after |-> IF IsSome(args.after)
                     THEN Some(EncodeKey(args.prefix, args.after.val)) ELSE None,
     continuation_token |-> None]

RECURSIVE FilterMapKeysUntil(_)
\* a filter that stops at the first key that does not match
FilterMapKeysUntil(keys) ==
    IF keys = <<>> \/ ~Matches(Head(keys)) THEN <<>>
    ELSE <<DecodeKey(Head(keys))>> \o FilterMapKeysUntil(Tail(keys))

RECURSIVE FilterMapKeysShifted(_)
\* a filter whose descriptors carry a timestamp one off the one of their key
FilterMapKeysShifted(keys) ==
    IF keys = <<>> THEN <<>>
    ELSE (IF Matches(Head(keys)) THEN <<[DecodeKey(Head(keys)) EXCEPT !.timestamp = @ + 1]>> ELSE <<>>)
            \o FilterMapKeysShifted(Tail(keys))

RECURSIVE FilterMapKeys(_)
\* filter_map: the descriptors of the keys that match the grammar, in order
FilterMapKeys(keys) ==
    IF keys = <<>> THEN <<>>
    ELSE (IF Matches(Head(keys)) THEN <<DecodeKey(Head(keys))>> ELSE <<>>)
            \o FilterMapKeys(Tail(keys))

\* a lower bound that lets the bound itself through
AfterFilterInclusive(info, after) == IsSome(after) => info.timestamp >= after.val

AfterFilter(info, after) == IsSome(after) => info.timestamp > after.val
BeforeFilter(info, before) == IsSome(before) => info.timestamp <= before.val

RECURSIVE MapOk(_)
MapOk(xs) == IF xs = <<>> THEN <<>> ELSE <<OkItem(Head(xs))>> \o MapOk(Tail(xs))

\* a closure that drops a failed page without a word
FlatMapPageSkipErr(entry, after, before) ==
    IF entry.ok
    THEN LET KeepAfter(info) == AfterFilter(info, after)
             KeepBefore(info) == BeforeFilter(info, before)
         IN  MapOk(SelectSeq(SelectSeq(FilterMapKeys(entry.contents), KeepAfter), KeepBefore))
    ELSE <<>>

\* the closure of flat_map: the inner stream of one page response
FlatMapPage(entry, after, before) ==
    IF entry.ok
    THEN LET KeepAfter(info) == AfterFilter(info, after)
             KeepBefore(info) == BeforeFilter(info, before)
         IN  MapOk(SelectSeq(SelectSeq(FilterMapKeys(entry.contents), KeepAfter), KeepBefore))
    ELSE <<ErrItem("s3_error")>>

\* an unfold that forgets the continuation token
UnfoldNextStop(resp) == None

\* an unfold that asks again from the first page when a request has failed
UnfoldNextRetry(resp) == IF resp.ok THEN resp.next_continuation_token ELSE Some(0)

\* an unfold that keeps the token of the answer before the last one
UnfoldNextStale(resp) ==
    IF resp.ok /\ IsSome(resp.next_continuation_token)
    THEN Some(Max(0, resp.next_continuation_token.val - 1)) ELSE None

\* an unfold that asks for the first page again after a page without a token
UnfoldNextPastEnd(resp) ==
    IF resp.ok
    THEN IF IsSome(resp.next_continuation_token) THEN resp.next_continuation_token ELSE Some(0)
    ELSE None

\* the closure of unfold once its request has been answered: the next state
UnfoldNext(resp) == IF resp.ok THEN resp.next_continuation_token ELSE None

Pending == [kind |-> "pending"]
EndOfStream == [kind |-> "end"]

RECURSIVE PollListPrefetch(_, _)
\* a stream that asks for the next page while entries of the page before are
\* still to be pulled
PollListPrefetch(s, args) ==
    IF s.inner # <<>>
    THEN [s |-> IF ~s.inflight /\ IsSome(s.next)
                THEN [s EXCEPT !.inner = Tail(@), !.out = Append(@, Head(s.inner)),
                               !.inflight = TRUE,
                               !.reqs = Append(@, [ListRequest(args) EXCEPT !.continuation_token = s.next])]
                ELSE [s EXCEPT !.inner = Tail(@), !.out = Append(@, Head(s.inner))],
          ret |-> Head(s.inner)]
    ELSE IF s.inflight
    THEN IF IsSome(s.resp)
         THEN PollListPrefetch([s EXCEPT !.inflight = FALSE, !.resp = None,
                                         !.first_time = FALSE,
                                         !.next = UnfoldNext(s.resp.val),
                                         !.inner = FlatMapPage(s.resp.val, args.after, args.before)],
                               args)
         ELSE [s |-> s, ret |-> Pending]
    ELSE IF s.first_time \/ IsSome(s.next)
    THEN [s |-> [s EXCEPT !.inflight = TRUE,
                          !.reqs = Append(@, [ListRequest(args) EXCEPT !.continuation_token = s.next])],
          ret |-> Pending]
    ELSE [s |-> [s EXCEPT !.done = TRUE], ret |-> EndOfStream]

RECURSIVE PollList(_, _)
\* one poll_next of the stream list returns, from the stream state s: the new
\* state and what the poll returns (an item, Pending or end of sequence)
PollList(s, args) ==
    IF s.inner # <<>>
    THEN [s |-> [s EXCEPT !.inner = Tail(@), !.out = Append(@, Head(s.inner))],
          ret |-> Head(s.inner)]
    ELSE IF s.inflight
    THEN IF IsSome(s.resp)
         THEN PollList([s EXCEPT !.inflight = FALSE, !.resp = None,
                                 !.first_time = FALSE,
                                 !.next = UnfoldNext(s.resp.val),
                                 !.inner = FlatMapPage(s.resp.val, args.after, args.before)],
                       args)
         ELSE [s |-> s, ret |-> Pending]
    ELSE IF s.first_time \/ IsSome(s.next)
    THEN [s |-> [s EXCEPT !.inflight = TRUE,
                          !.reqs = Append(@, [ListRequest(args) EXCEPT !.continuation_token = s.next])],
          ret |-> Pending]
    ELSE [s |-> [s EXCEPT !.done = TRUE], ret |-> EndOfStream]

RECURSIVE TryCollectPartial(_, _, _)
\* a collect that returns what it has when the stream fails
TryCollectPartial(s, acc, args) ==
    LET r == PollList(s, args)
    IN  IF r.ret = Pending THEN [s |-> r.s, acc |-> acc, result |-> None]
        ELSE IF r.ret = EndOfStream THEN [s |-> r.s, acc |-> <<>>, result |-> Some(OkItem(acc))]
        ELSE IF r.ret.kind = "err" THEN [s |-> r.s, acc |-> <<>>, result |-> Some(OkItem(acc))]
        ELSE TryCollectPartial(r.s, Append(acc, r.ret.val), args)

RECURSIVE TryCollect(_, _, _)
\* try_collect over the list stream (list_all): polls the stream until it is
\* pending, fails or ends; the items so far, and the result once there is one
TryCollect(s, acc, args) ==
    LET r == PollList(s, args)
    IN  IF r.ret = Pending THEN [s |-> r.s, acc |-> acc, result |-> None]
        ELSE IF r.ret = EndOfStream THEN [s |-> r.s, acc |-> <<>>, result |-> Some(OkItem(acc))]
        ELSE IF r.ret.kind = "err" THEN [s |-> r.s, acc |-> acc, result |-> Some(r.ret)]
        ELSE TryCollect(r.s, Append(acc, r.ret.val), args)

\* the bounds a listing is asked with: a lower bound below the latest timestamp,
\* an upper bound above the earliest
OptAfter == {None} \cup {Some(t) : t \in 0..(MaxTs - 1)}
OptBefore == {None} \cup {Some(t) : t \in 1..MaxTs}

\* a listing that starts from a cursor kept outside of it
ListStreamResumed ==
    [first_time |-> TRUE, next |-> Some(1), inflight |-> FALSE, resp |-> None,
     inner |-> <<>>, reqs |-> <<>>, out |-> <<>>, done |-> FALSE, dropped |-> FALSE]

ListStream0 ==
    [first_time |-> TRUE, next |-> None, inflight |-> FALSE, resp |-> None,
     inner |-> <<>>, reqs |-> <<>>, out |-> <<>>, done |-> FALSE, dropped |-> FALSE]

\* a second listing of all keys under the prefix "x", before its first pull
Twin0 ==
    [args |-> [prefix |-> PrefixX, after |-> None, before |-> None],
     ls |-> ListStream0, served |-> <<>>]

IdleTwin == twin = Twin0

InitList ==
    /\ bucketKeys \in {SortKeys(S) : S \in {T \in SUBSET KeyUniverse : Cardinality(T) <= MaxObjects}}
    /\ lsArgs \in [prefix : {PrefixX}, after : OptAfter, before : OptBefore]
    /\ ls = ListStream0
    /\ served = <<>>
    /\ collected = [acc |-> <<>>, result |-> None]
    /\ IdleCodec
    /\ IdleSource
    /\ IdleFacade
    /\ IdleTwin

\* the poll would find the page request still unanswered
AwaitsPage == ls.inner = <<>> /\ ls.inflight /\ ~IsSome(ls.resp)

\* the consumer of list pulls the next item
ListNext ==
    /\ ~ls.done /\ ~ls.dropped
    /\ ~AwaitsPage
    /\ ls' = PollList(ls, lsArgs).s
    /\ UNCHANGED <<bucketKeys, lsArgs, served, collected, cdVars, srcVars, fcVars, twin>>

\* list_all is polled
ListAll ==
    /\ ~IsSome(collected.result)
    /\ ~AwaitsPage
    /\ LET r == TryCollect(ls, collected.acc, lsArgs)
       IN  /\ ls' = r.s
           /\ collected' = [acc |-> r.acc, result |-> r.result]
    /\ UNCHANGED <<bucketKeys, lsArgs, served, cdVars, srcVars, fcVars, twin>>

\* the backend answers the page request in flight
PageResponse ==
    /\ AwaitsPage
    /\ \E r \in PageResponses(bucketKeys, ls.reqs[Len(ls.reqs)], Len(served)) :
        /\ ls' = [ls EXCEPT !.resp = Some(r)]
        /\ served' = Append(served, r)
    /\ UNCHANGED <<bucketKeys, lsArgs, collected, cdVars, srcVars, fcVars, twin>>

\* list, pulled item by item
NextList == ListNext \/ PageResponse

SpecList == InitList /\ [][NextList]_vars

\* list_all
NextListAll == ListAll \/ PageResponse

SpecListAll == InitList /\ [][NextListAll]_vars

-----------------------------------------------------------------------------
(* Properties of the listing                                               *)

\* the keys of all pages served so far, in page order
ServedKeys == Concat([i \in 1..Len(served) |-> served[i].contents])
\* the keys of the pages before page k
KeysBefore(k) == Concat([i \in 1..(k - 1) |-> served[i].contents])

NoPageFailed == \A i \in 1..Len(served) : served[i].ok
FirstFailure == CHOOSE k \in 1..Len(served) : ~served[k].ok /\ \A j \in 1..(k - 1) : served[j].ok

\* a key is of the grammar and its timestamp lies in the window (T1, T2]
InWindow(key) ==
    /\ Matches(key)
    /\ (IsSome(lsArgs.after) => lsArgs.after.val < DecodeKey(key).timestamp)
    /\ (IsSome(lsArgs.before) => DecodeKey(key).timestamp <= lsArgs.before.val)

\* the descriptors of those keys, as items
WindowItems(keys) == LET d == SelectSeq(keys, InWindow) IN [i \in 1..Len(d) |-> OkItem(DecodeKey(d[i]))]

IsSeqPrefix(a, b) == Len(a) <= Len(b) /\ SubSeq(b, 1, Len(a)) = a

C3_PageConcatenation ==
    /\ NoPageFailed => IsSeqPrefix(ls.out, WindowItems(ServedKeys))
    /\ (ls.done /\ NoPageFailed) =>
          /\ ls.out = WindowItems(ServedKeys)
          /\ Len(ls.reqs) = Len(served)
          /\ served # <<>>
          /\ ~IsSome(served[Len(served)].next_continuation_token)
          /\ \A i \in 1..(Len(served) - 1) : IsSome(served[i].next_continuation_token)
          /\ (Len(ServedKeys) = Len(ListObjects(bucketKeys, lsArgs.prefix, ls.reqs[1].start_after))
                => ls.out = WindowItems(ListObjects(bucketKeys, lsArgs.prefix, ls.reqs[1].start_after)))

\* C3 witness: a listing of three or more pages, one of them empty and not the
\* last, has ended, and an entry returned on two pages was yielded twice
C3_Witness ==
    /\ ls.done /\ NoPageFailed /\ Len(served) >= 3
    /\ \E i \in 1..(Len(served) - 1) : served[i].contents = <<>>
    /\ \E i, j \in 1..Len(ls.out) : i < j /\ ls.out[i] = ls.out[j]

\* C4: when the k-th page request fails, the stream yields the filtered entries
\* of pages 1..k-1, then one error, then ends; no request follows the failed one.
C4_FailureEndsListing ==
    ~NoPageFailed =>
        LET k == FirstFailure
            whole == WindowItems(KeysBefore(k)) \o <<ErrItem("s3_error")>>
        IN  /\ Len(served) = k
            /\ Len(ls.reqs) = k
            /\ ~ls.inflight \/ IsSome(ls.resp)
            /\ IsSeqPrefix(ls.out, whole)
            /\ (ls.done => ls.out = whole)

\* C4 witness: the third page request failed after a page with an entry, and the
\* stream has ended
C4_Witness ==
    /\ ~NoPageFailed /\ FirstFailure = 3 /\ ls.done
    /\ Len(ls.out) >= 2

\* C10: list_all returns the items of list, drained in order, when no page
\* request fails, and the first error, without any collection, when one fails.
C10_ListAll ==
    IsSome(collected.result) =>
        IF NoPageFailed
        THEN /\ collected.result.val = OkItem([i \in 1..Len(ls.out) |-> ls.out[i].val])
             /\ \A i \in 1..Len(ls.out) : ls.out[i].kind = "ok"
             /\ ls.done
             /\ ls.out = WindowItems(ServedKeys)
        ELSE /\ collected.result.val = ErrItem("s3_error")
             /\ ls.out = WindowItems(KeysBefore(FirstFailure)) \o <<collected.result.val>>

\* list_all has returned a collection of two or more entries over two or more pages
C10_WitnessOk ==
    /\ IsSome(collected.result) /\ collected.result.val.kind = "ok"
    /\ Len(collected.result.val.val) >= 2 /\ Len(served) >= 2

\* C10 witness: list_all has failed after earlier pages had produced entries
C10_Witness ==
    /\ IsSome(collected.result) /\ collected.result.val.kind = "err"
    /\ Len(ls.out) >= 2

-----------------------------------------------------------------------------
(* stream_source: FramedRead over the decompressed body, split by          *)
(* LengthDelimitedCodec                                                    *)

IdleList ==
    /\ bucketKeys = <<>>
    /\ lsArgs = [prefix |-> PrefixX, after |-> None, before |-> None]
    /\ ls = ListStream0
    /\ served = <<>>
    /\ collected = [acc |-> <<>>, result |-> None]

MaxFrames == 2      \* a body holds at most MaxFrames frames
MaxPayload == 2     \* a frame holds at most MaxPayload payload bytes
MaxChunk == 2       \* at most MaxChunk bytes arrive at once

HeadLen == 4                   \* LengthDelimitedCodec::new(): length_field_len
MaxFrameLength == 8388608      \* LengthDelimitedCodec::new(): max_frame_length, 8 MiB

\* the length prefix of a frame: n as a big-endian unsigned integer of HeadLen bytes
RECURSIVE BigEndian(_, _)
BigEndian(n, w) == IF w = 0 THEN <<>> ELSE Append(BigEndian(n \div 256, w - 1), n % 256)

RECURSIVE FromBigEndian(_)
FromBigEndian(bs) ==
    IF bs = <<>> THEN 0
    ELSE 256 * FromBigEndian(SubSeq(bs, 1, Len(bs) - 1)) + bs[Len(bs)]

\* the body a writer produces for the frames: [length][payload] records
RECURSIVE WriteFrames(_)
WriteFrames(frames) ==
    IF frames = <<>> THEN <<>>
    ELSE BigEndian(Len(Head(frames)), HeadLen) \o Head(frames) \o WriteFrames(Tail(frames))

\* the payload of the i-th frame of a body, n bytes that name the frame and
\* their place in it
Payload(i, n) == [j \in 1..n |-> 16 * i + j]

\* the bodies read: up to MaxFrames frames of up to MaxPayload bytes each
Bodies ==
    UNION {{[i \in 1..k |-> Payload(i, lens[i])] : lens \in [1..k -> 0..MaxPayload]} : k \in 0..MaxFrames}

\* LengthDelimitedCodec::decode_head
DecodeHead(src) ==
    IF Len(src) < HeadLen THEN [err |-> FALSE, n |-> None, src |-> src]
    ELSE LET n == FromBigEndian(SubSeq(src, 1, HeadLen))
         IN  IF n > MaxFrameLength THEN [err |-> TRUE, n |-> None, src |-> src]
             ELSE [err |-> FALSE, n |-> Some(n), src |-> SubSeq(src, HeadLen + 1, Len(src))]

\* a decode_data that hands out the bytes it has when the payload is not whole
DecodeDataShort(n, src) ==
    IF Len(src) < n /\ src = <<>> THEN [frame |-> None, src |-> src]
    ELSE [frame |-> Some(SubSeq(src, 1, Min(n, Len(src)))),
          src |-> SubSeq(src, Min(n, Len(src)) + 1, Len(src))]

\* LengthDelimitedCodec::decode_data
DecodeData(n, src) ==
    IF Len(src) < n THEN [frame |-> None, src |-> src]
    ELSE [frame |-> Some(SubSeq(src, 1, n)), src |-> SubSeq(src, n + 1, Len(src))]

\* LengthDelimitedCodec::decode: the frame decoded from the buffer if one is
\* complete, the buffer left and the codec's next state
Decode(state, src) ==
    LET h == IF state.head THEN DecodeHead(src) ELSE [err |-> FALSE, n |-> Some(state.n), src |-> src]
    IN  IF h.err THEN [err |-> TRUE, frame |-> None, src |-> src, state |-> state]
        ELSE IF ~IsSome(h.n) THEN [err |-> FALSE, frame |-> None, src |-> src, state |-> state]
        ELSE LET d == DecodeData(h.n.val, h.src)
             IN  IF IsSome(d.frame)
                 THEN [err |-> FALSE, frame |-> d.frame, src |-> d.src, state |-> [head |-> TRUE, n |-> 0]]
                 ELSE [err |-> FALSE, frame |-> None, src |-> d.src, state |-> [head |-> FALSE, n |-> h.n.val]]

\* Decoder::decode_eof: at the end of the body, bytes left over are an error
DecodeEof(state, src) ==
    LET r == Decode(state, src)
    IN  IF r.err \/ IsSome(r.frame) THEN r
        ELSE IF r.src = <<>> THEN r
        ELSE [r EXCEPT !.err = TRUE]

\* poll_read of the decompressing reader: the bytes that have arrived and are
\* not read yet; none of them and the body still open: pending; at its end:
\* 0 bytes (end of file) or the error that ended it
PollRead(body, arrived, ended, read) ==
    IF read < arrived THEN [kind |-> "bytes", bytes |-> SubSeq(body, read + 1, arrived)]
    ELSE IF ended = "no" THEN [kind |-> "pending"]
    ELSE IF ended = "eof" THEN [kind |-> "bytes", bytes |-> <<>>]
    ELSE [kind |-> "error"]

RECURSIVE PollFramed(_, _, _, _)
\* one poll_next of FramedRead from its state s: the new state and what the
\* poll returns
PollFramed(s, body, arrived, ended) ==
    IF s.has_errored
    THEN [s |-> [s EXCEPT !.is_readable = FALSE, !.has_errored = FALSE], ret |-> EndOfStream]
    ELSE IF s.is_readable /\ s.eof
    THEN LET r == DecodeEof(s.state, s.buffer)
         IN  IF r.err
             THEN [s |-> [s EXCEPT !.has_errored = TRUE], ret |-> ErrItem("codec")]
             ELSE IF ~IsSome(r.frame)
             THEN [s |-> [s EXCEPT !.is_readable = FALSE, !.buffer = r.src, !.state = r.state],
                   ret |-> EndOfStream]
             ELSE [s |-> [s EXCEPT !.buffer = r.src, !.state = r.state], ret |-> OkItem(r.frame.val)]
    ELSE IF s.is_readable /\ Decode(s.state, s.buffer).err
    THEN [s |-> [s EXCEPT !.has_errored = TRUE], ret |-> ErrItem("codec")]
    ELSE IF s.is_readable /\ IsSome(Decode(s.state, s.buffer).frame)
    THEN LET r == Decode(s.state, s.buffer)
         IN  [s |-> [s EXCEPT !.buffer = r.src, !.state = r.state], ret |-> OkItem(r.frame.val)]
    ELSE LET r == IF s.is_readable THEN Decode(s.state, s.buffer)
                  ELSE [src |-> s.buffer, state |-> s.state]
             t == [s EXCEPT !.is_readable = FALSE, !.buffer = r.src, !.state = r.state]
             got == PollRead(body, arrived, ended, s.read)
         IN  IF got.kind = "error"
             THEN [s |-> [t EXCEPT !.has_errored = TRUE], ret |-> ErrItem("codec")]
             ELSE IF got.kind = "pending"
             THEN [s |-> t, ret |-> Pending]
             ELSE IF got.bytes = <<>> /\ t.eof
             THEN [s |-> t, ret |-> EndOfStream]
             ELSE PollFramed([t EXCEPT !.buffer = @ \o got.bytes,
                                       !.read = @ + Len(got.bytes),
                                       !.eof = (got.bytes = <<>>),
                                       !.is_readable = TRUE],
                             body, arrived, ended)

InitCodec ==
    /\ IdleList
    /\ IdleSource
    /\ IdleFacade
    /\ IdleTwin
    /\ cdFrames \in Bodies
    /\ cdArrived = 0
    /\ cdEnded = "no"
    /\ framed = Framed0
    /\ cdOut = <<>>
    /\ cdDone = FALSE

\* the next bytes of the body arrive
Arrive ==
    /\ cdEnded = "no"
    /\ \E n \in 1..MaxChunk :
        /\ cdArrived + n <= Len(WriteFrames(cdFrames))
        /\ cdArrived' = cdArrived + n
    /\ UNCHANGED <<lsVars, srcVars, cdFrames, cdEnded, framed, cdOut, cdDone, fcVars, twin>>

\* the body ends after the bytes that have arrived: at its end or cut off
\* before it, by the end of the decompressed data or by a failure of the
\* transfer or of the decompression
BodyEnds ==
    /\ cdEnded = "no"
    /\ cdEnded' \in {"eof", "error"}
    /\ UNCHANGED <<lsVars, srcVars, cdFrames, cdArrived, framed, cdOut, cdDone, fcVars, twin>>

\* the consumer pulls the next item of the stream
CodecNext ==
    /\ ~cdDone
    /\ LET r == PollFramed(framed, WriteFrames(cdFrames), cdArrived, cdEnded)
       IN  /\ r.ret # Pending \/ r.s # framed
           /\ framed' = r.s
           /\ cdOut' = IF r.ret = Pending \/ r.ret = EndOfStream THEN cdOut ELSE Append(cdOut, r.ret)
           /\ cdDone' = (r.ret = EndOfStream)
    /\ UNCHANGED <<lsVars, srcVars, cdFrames, cdArrived, cdEnded, fcVars, twin>>

NextCodec == Arrive \/ BodyEnds \/ CodecNext

SpecCodec == InitCodec /\ [][NextCodec]_vars

-----------------------------------------------------------------------------
(* Properties of the codec pipeline                                        *)

\* the offset in the body at which its i-th frame ends
EndOffset(i) == Len(WriteFrames(SubSeq(cdFrames, 1, i)))
\* the number of frames that lie wholly within the first a bytes of the body
NComplete(a) == Cardinality({i \in 1..Len(cdFrames) : EndOffset(i) <= a})
\* the first a bytes of the body end inside a frame
MidFrame(a) == \A i \in 0..Len(cdFrames) : EndOffset(i) # a
\* the first k frames, as items
FrameItems(k) == [i \in 1..k |-> OkItem(cdFrames[i])]

\* C8: a body cut off inside a frame yields the frames that had arrived whole,
\* then one error, then end of sequence.
C8_TruncatedBody ==
    (cdEnded # "no" /\ MidFrame(cdArrived)) =>
        LET whole == FrameItems(NComplete(cdArrived)) \o <<ErrItem("codec")>>
        IN  /\ IsSeqPrefix(cdOut, whole)
            /\ (cdDone => cdOut = whole)

\* C8 witness: a body was cut off inside the payload of its second frame, and
\* the stream has ended
C8_Witness ==
    /\ cdDone /\ cdEnded # "no" /\ MidFrame(cdArrived)
    /\ NComplete(cdArrived) = 1
    /\ cdArrived - EndOffset(1) > HeadLen

\* the same for a body cut off inside the length prefix of its second frame
C8_WitnessPrefix ==
    /\ cdDone /\ cdEnded = "eof" /\ MidFrame(cdArrived)
    /\ NComplete(cdArrived) = 1
    /\ cdArrived - EndOffset(1) < HeadLen

\* C9: the frames of a well-formed body are yielded in written order, each with
\* its payload, and then the sequence ends, however the bytes arrive; a frame
\* is yielded only after all of its bytes have arrived.
C9_FramesInOrder ==
    /\ \A i \in 1..Len(cdOut) :
          cdOut[i].kind = "ok" =>
              /\ i <= NComplete(cdArrived)
              /\ cdOut[i] = OkItem(cdFrames[i])
              /\ Len(cdOut[i].val) = FromBigEndian(SubSeq(WriteFrames(cdFrames), EndOffset(i - 1) + 1, EndOffset(i - 1) + HeadLen))
    /\ (cdDone /\ cdEnded = "eof" /\ ~MidFrame(cdArrived)) => cdOut = FrameItems(NComplete(cdArrived))

\* C9 witness: a whole body of two frames, each with a payload, has been read
\* to its end and both frames have been yielded
C9_Witness ==
    /\ cdDone /\ cdEnded = "eof" /\ cdArrived = Len(WriteFrames(cdFrames))
    /\ Len(cdFrames) >= 2 /\ Len(cdOut) = Len(cdFrames)
    /\ \A i \in 1..Len(cdFrames) : Len(cdFrames[i]) >= 1

-----------------------------------------------------------------------------
(* FileStore::source and source_unordered: map_ok(get_byte_stream), then    *)
(* try_buffered(2) or try_buffer_unordered(workers), then flat_map          *)

\* the object d holds d - 1 frames
NFrames(d) == d - 1

FrameItem(d, i) == OkItem([file |-> d, index |-> i])

\* a body whose frames come out last first
BodyItemsReversed(d, how) ==
    IF how = "ok" THEN [i \in 1..NFrames(d) |-> OkItem([file |-> d, index |-> NFrames(d) + 1 - i])]
    ELSE [i \in 1..Max(0, NFrames(d) - 1) |-> OkItem([file |-> d, index |-> i])] \o <<ErrItem("codec")>>

\* the items stream_source yields for the body of d: its frames when the body is
\* sound; when it is not, the frames before the last one and a codec error
BodyItems(d, how) ==
    IF how = "ok" THEN [i \in 1..NFrames(d) |-> FrameItem(d, i)]
    ELSE [i \in 1..Max(0, NFrames(d) - 1) |-> FrameItem(d, i)] \o <<ErrItem("codec")>>

\* a buffer that takes the whole input at once
BufferDepthUnbounded(args) == MaxFiles + 1

\* the number of descriptors the buffer keeps in progress
BufferDepth(args) == IF args.mode = "ordered" THEN 2 ELSE args.workers

RECURSIVE FillQueue(_, _, _)
\* the first loop of TryBuffered / TryBufferUnordered: takes descriptors from the
\* input and starts their requests while the queue is below its depth; an error
\* of the input is handed on at once
FillQueue(s, depth, input) ==
    IF Len(s.queue) < depth /\ ~s.input_done
    THEN IF s.inPos = Len(input)
         THEN [s |-> [s EXCEPT !.input_done = TRUE], err |-> None]
         ELSE LET item == input[s.inPos + 1]
                  t == [s EXCEPT !.inPos = @ + 1]
              IN  IF item.kind = "err" THEN [s |-> t, err |-> Some(item)]
                  ELSE FillQueue([t EXCEPT !.queue = Append(@, item.val),
                                           !.gets = Append(@, item.val)],
                                 depth, input)
    ELSE [s |-> s, err |-> None]

RemoveFrom(q, d) == LET Other(x) == x # d IN SelectSeq(q, Other)

\* a buffer that gives the results in the order in which the requests have ended
NextResultAsEnded(s, args, outc) ==
    IF s.ready # <<>> THEN Some(Head(s.ready)) ELSE None

\* a buffer that gives the results in the order of the queue in both modes
NextResultInOrder(s, args, outc) ==
    IF s.queue # <<>> /\ outc[Head(s.queue)] # "none" THEN Some(Head(s.queue)) ELSE None

\* the request of the queue whose result comes out next, if one does:
\* FuturesOrdered gives the results in the order of the queue, FuturesUnordered
\* in the order in which the requests have ended
NextResult(s, args, outc) ==
    IF args.mode = "ordered"
    THEN IF s.queue # <<>> /\ outc[Head(s.queue)] # "none" THEN Some(Head(s.queue)) ELSE None
    ELSE IF s.ready # <<>> THEN Some(Head(s.ready)) ELSE None

\* poll_next of TryBuffered / TryBufferUnordered
PollBuffered(s, args, input, outc) ==
    LET f == FillQueue(s, BufferDepth(args), input)
        nxt == NextResult(f.s, args, outc)
    IN  IF IsSome(f.err) THEN [s |-> f.s, ret |-> f.err.val]
        ELSE IF IsSome(nxt)
        THEN [s |-> [f.s EXCEPT !.queue = RemoveFrom(@, nxt.val), !.ready = RemoveFrom(@, nxt.val)],
              ret |-> IF outc[nxt.val] = "failed" THEN ErrItem("s3_error")
                      ELSE OkItem(nxt.val)]
        ELSE IF f.s.queue # <<>> THEN [s |-> f.s, ret |-> Pending]
        ELSE IF f.s.input_done THEN [s |-> f.s, ret |-> EndOfStream]
        ELSE [s |-> f.s, ret |-> Pending]

\* a closure that loses the last frame of every body
FlatMapFetchedShort(res, outc) ==
    IF res.kind = "ok"
    THEN [file |-> res.val,
          items |-> SubSeq(BodyItems(res.val, outc[res.val]), 1, Len(BodyItems(res.val, outc[res.val])) - 1)]
    ELSE [file |-> 0, items |-> <<res>>]

\* the closure of flat_map: the inner stream of one result of the buffer
FlatMapFetched(res, outc) ==
    IF res.kind = "ok" THEN [file |-> res.val, items |-> BodyItems(res.val, outc[res.val])]
    ELSE [file |-> 0, items |-> <<res>>]

RECURSIVE PollSourceSpliced(_, _, _, _)
\* a flat_map that polls the buffer while it drains a body and puts the body it
\* gets before the rest of the one it drains
PollSourceSpliced(s, args, input, outc) ==
    IF IsSome(s.cur)
    THEN IF s.cur.val.items # <<>>
         THEN LET r == PollBuffered(s, args, input, outc)
                  t == IF r.ret = Pending \/ r.ret = EndOfStream
                       THEN [s EXCEPT !.cur = Some([s.cur.val EXCEPT !.items = Tail(@)])]
                       ELSE [r.s EXCEPT !.cur = Some([s.cur.val EXCEPT
                                            !.items = FlatMapFetched(r.ret, outc).items \o Tail(@)])]
              IN  [s |-> [t EXCEPT !.out = Append(@, Head(s.cur.val.items))],
                   ret |-> Head(s.cur.val.items)]
         ELSE PollSourceSpliced([s EXCEPT !.cur = None], args, input, outc)
    ELSE LET r == PollBuffered(s, args, input, outc)
         IN  IF r.ret = Pending THEN r
             ELSE IF r.ret = EndOfStream THEN [s |-> [r.s EXCEPT !.done = TRUE], ret |-> EndOfStream]
             ELSE PollSourceSpliced([r.s EXCEPT !.cur = Some(FlatMapFetched(r.ret, outc))], args, input, outc)

RECURSIVE PollSource(_, _, _, _)
\* one poll_next of the stream source / source_unordered returns
PollSource(s, args, input, outc) ==
    IF IsSome(s.cur)
    THEN IF s.cur.val.items # <<>>
         THEN [s |-> [s EXCEPT !.cur = Some([s.cur.val EXCEPT !.items = Tail(@)]),
                               !.out = Append(@, Head(s.cur.val.items))],
               ret |-> Head(s.cur.val.items)]
         ELSE PollSource([s EXCEPT !.cur = None], args, input, outc)
    ELSE LET r == PollBuffered(s, args, input, outc)
         IN  IF r.ret = Pending THEN r
             ELSE IF r.ret = EndOfStream THEN [s |-> [r.s EXCEPT !.done = TRUE], ret |-> EndOfStream]
             ELSE PollSource([r.s EXCEPT !.cur = Some(FlatMapFetched(r.ret, outc))], args, input, outc)

\* the inputs: each object named at most once, and at most MaxFaults errors
InputItems == {OkItem(d) : d \in Descs} \cup {ErrItem("input")}

Inputs ==
    {s \in SeqsOver(InputItems, MaxFiles) :
        /\ \A i, j \in 1..Len(s) : (i # j /\ s[i].kind = "ok") => s[i] # s[j]
        /\ Cardinality({i \in 1..Len(s) : s[i].kind = "err"}) <= MaxFaults}

Modes ==
    {[mode |-> "ordered", workers |-> 2]}
        \cup {[mode |-> "unordered", workers |-> w] : w \in 1..MaxWorkers}

\* the faults of the run so far
NFaults ==
    Cardinality({i \in 1..Len(infos) : infos[i].kind = "err"})
        + Cardinality({d \in Descs : outcome[d] \in {"failed", "corrupt"}})

InitSource ==
    /\ IdleList
    /\ IdleCodec
    /\ IdleFacade
    /\ IdleTwin
    /\ srcArgs \in Modes
    /\ infos \in Inputs
    /\ outcome = [d \in Descs |-> "none"]
    /\ fan = Source0

\* the consumer pulls the next item of the stream
SourceNext ==
    /\ ~fan.done /\ ~fan.dropped
    /\ fan' = PollSource(fan, srcArgs, infos, outcome).s
    /\ fan' # fan
    /\ UNCHANGED <<lsVars, cdVars, srcArgs, infos, outcome, fcVars, twin>>

\* the get_object request of a descriptor in progress ends: with a sound body,
\* with a body that fails while it is read, or with a failure of the request
FetchDone ==
    /\ \E i \in 1..Len(fan.queue) :
        LET d == fan.queue[i]
        IN  /\ outcome[d] = "none"
            /\ \E how \in {"ok", "failed", "corrupt"} :
                /\ how # "ok" => NFaults < MaxFaults
                /\ outcome' = [outcome EXCEPT ![d] = how]
            /\ fan' = [fan EXCEPT !.ready = Append(@, d), !.ended = Append(@, d)]
    /\ UNCHANGED <<lsVars, cdVars, srcArgs, infos, fcVars, twin>>

NextSource == SourceNext \/ FetchDone

SpecSource == InitSource /\ [][NextSource]_vars

-----------------------------------------------------------------------------
(* Properties of the fan-out                                               *)

\* no error in the input, no request failed, no body failed
Healthy ==
    /\ \A i \in 1..Len(infos) : infos[i].kind = "ok"
    /\ \A d \in Descs : outcome[d] \in {"none", "ok"}

\* the frames of the input's descriptors, fetched one after another in input order
Sequential == Concat([i \in 1..Len(infos) |-> [k \in 1..NFrames(infos[i].val) |-> FrameItem(infos[i].val, k)]])

Count(seq, x) == Cardinality({i \in 1..Len(seq) : seq[i] = x})

\* C1: over healthy fetches and bodies, source yields frames(d1) ++ ... ++
\* frames(dn) in input order, nothing lost, doubled or out of place, in
\* whatever order the two requests in flight end.
C1_OrderedConcat ==
    (srcArgs.mode = "ordered" /\ Healthy) =>
        /\ IsSeqPrefix(fan.out, Sequential)
        /\ (fan.done => fan.out = Sequential)

\* C1 witness: source has ended over three descriptors with frames, and a
\* request ended before the request of an earlier descriptor
C1_Witness ==
    /\ srcArgs.mode = "ordered" /\ Healthy /\ fan.done
    /\ Len(infos) = 3 /\ Len(fan.out) >= 3
    /\ \E i, j \in 1..Len(fan.ended) :
          /\ i < j
          /\ \E a, b \in 1..Len(infos) : a > b /\ infos[a].val = fan.ended[i] /\ infos[b].val = fan.ended[j]

\* C5: when the request of a descriptor fails, that error is the last item of
\* the combined sequence, in source and in source_unordered.
C5_FetchErrorIsLast ==
    \A i \in 1..Len(fan.out) : fan.out[i] = ErrItem("s3_error") => i = Len(fan.out)

\* C6: over healthy fetches and bodies source_unordered yields every frame of
\* the sequential fetch exactly once, for every worker count and every order in
\* which the requests end; with one worker its output is that of source, item
\* for item.
C6_UnorderedMultiset ==
    (srcArgs.mode = "unordered" /\ Healthy) =>
        /\ \A i \in 1..Len(fan.out) : Count(fan.out, fan.out[i]) = 1 /\ Count(Sequential, fan.out[i]) = 1
        /\ (fan.done => Len(fan.out) = Len(Sequential))
        /\ (srcArgs.workers = 1 =>
                /\ IsSeqPrefix(fan.out, Sequential)
                /\ (fan.done => fan.out = Sequential))

\* C6 witness: source_unordered with two or more workers has ended over three
\* descriptors, its frames in another order than the input's
C6_Witness ==
    /\ srcArgs.mode = "unordered" /\ srcArgs.workers >= 2 /\ Healthy /\ fan.done
    /\ Len(infos) = 3 /\ fan.out # Sequential /\ Len(fan.out) = Len(Sequential)

\* the same with one worker
C6_WitnessOneWorker ==
    /\ srcArgs.mode = "unordered" /\ srcArgs.workers = 1 /\ Healthy /\ fan.done
    /\ Len(infos) = 3 /\ Len(fan.out) >= 3 /\ fan.ended # <<>>

\* C7: in source_unordered the frames of one descriptor come out in the order
\* in which they stand in its body, whatever the order of the descriptors.
C7_FrameOrderPerFile ==
    srcArgs.mode = "unordered" =>
        \A i, j \in 1..Len(fan.out) :
            (/\ i < j
             /\ fan.out[i].kind = "ok" /\ fan.out[j].kind = "ok"
             /\ fan.out[i].val.file = fan.out[j].val.file)
            => fan.out[i].val.index < fan.out[j].val.index

\* C7 witness: the two frames of a descriptor have come out before the frame of
\* a descriptor that stands before it in the input
C7_Witness ==
    /\ srcArgs.mode = "unordered"
    /\ \E i, j, k \in 1..Len(fan.out) :
          /\ i < j /\ j < k
          /\ fan.out[i].kind = "ok" /\ fan.out[j].kind = "ok" /\ fan.out[k].kind = "ok"
          /\ fan.out[i].val.file = fan.out[j].val.file
          /\ fan.out[k].val.file # fan.out[i].val.file
          /\ \E a, b \in 1..Len(infos) :
                a < b /\ infos[a] = OkItem(fan.out[k].val.file) /\ infos[b] = OkItem(fan.out[i].val.file)

\* the descriptors whose request has been sent and whose items have not all
\* been taken: those in the buffer (request in progress, or ended and waiting)
\* and the one whose body flat_map holds
Undrained ==
    {fan.queue[i] : i \in 1..Len(fan.queue)}
        \cup (IF IsSome(fan.cur) /\ fan.cur.val.file # 0 THEN {fan.cur.val.file} ELSE {})

\* C11: the descriptors fetched and not yet drained are never more than 2 in
\* source and never more than the worker count in source_unordered.
C11_WindowBound ==
    /\ Undrained \subseteq {fan.gets[i] : i \in 1..Len(fan.gets)}
    /\ srcArgs.mode = "ordered" => Cardinality(Undrained) <= 2
    /\ srcArgs.mode = "unordered" => Cardinality(Undrained) <= srcArgs.workers

\* C11 witness: source holds one body that is being drained and one request in
\* the buffer, its window full, while the input has a descriptor left
C11_Witness ==
    /\ srcArgs.mode = "ordered" /\ Cardinality(Undrained) = 2
    /\ IsSome(fan.cur) /\ fan.cur.val.file # 0 /\ fan.cur.val.items # <<>>
    /\ fan.inPos < Len(infos) /\ infos[fan.inPos + 1].kind = "ok"

\* the same for source_unordered with two workers
C11_WitnessUnordered ==
    /\ srcArgs.mode = "unordered" /\ srcArgs.workers = 2 /\ Cardinality(Undrained) = 2
    /\ IsSome(fan.cur) /\ fan.cur.val.file # 0 /\ fan.cur.val.items # <<>>
    /\ fan.inPos < Len(infos) /\ infos[fan.inPos + 1].kind = "ok"

\* the descriptors whose get_object request has been sent
Started == {fan.gets[i] : i \in 1..Len(fan.gets)}

\* the buffer has handed on the result of the request of d
ResultTaken(d) == d \in Started /\ d \notin {fan.queue[i] : i \in 1..Len(fan.queue)}

\* C12: source starts the request of descriptor N+2 when the request of
\* descriptor N has ended, whether the frames of N have been drained or not:
\* once the result of N has left the buffer, the request of N+2 has been sent.
C12_NextStartsOnCompletion ==
    (srcArgs.mode = "ordered" /\ Healthy) =>
        \A n \in 1..(Len(infos) - 2) :
            (/\ \A k \in n..(n + 2) : infos[k].kind = "ok"
             /\ ResultTaken(infos[n].val))
            => infos[n + 2].val \in Started

-----------------------------------------------------------------------------
(* The facade: FileStore::put, remove and get_raw. Each call sends at most  *)
(* one request and awaits the answer of the backend; the client makes one   *)
(* call after another.                                                      *)

MaxCalls == 2       \* the client makes at most MaxCalls calls

\* the local paths: the directories "in" and "new" hold a file of every name,
\* the directory "gone" holds none
Paths == [dir : {"in", "new", "gone"}, name : FileNames]

\* ByteStream::from_path: the content of the local file, if it opens (the
\* content of a file is named by its path)
FromPath(path) == IF path.dir = "gone" THEN None ELSE Some(path)

\* file.file_name()
FileName(path) == path.name

\* the error kinds (error.rs is not part of the sources at hand: modelled from
\* the kinds of the error design: NotFound for a local path that does not open
\* and for a key the backend reports absent on read, BackendError for every
\* other failure of the backend)
ErrorNotFound == "NotFound"

S3Error(cause) == IF cause = "NoSuchKey" THEN "NotFound" ELSE "BackendError"

\* poc_metrics::record_duration! (not part of the sources at hand): hands the
\* sink one duration sample under the name, when the expression has its value
RecordDuration(sink, name) == Append(sink, name)

\* the answers the backend may give to a request: a failure of the transport, or
\* put_object stores the body under the key, delete_object leaves the key
\* without an object whether it had one or not, get_object gives the body of
\* the key or reports that the key has none
BackendAnswers(st, req) ==
    {[ok |-> FALSE, cause |-> "Transport", body |-> None, store |-> st]}
        \cup
    (CASE req.op = "put_object" ->
            {[ok |-> TRUE, cause |-> "", body |-> None, store |-> [st EXCEPT ![req.key] = req.body]]}
       [] req.op = "delete_object" ->
            {[ok |-> TRUE, cause |-> "", body |-> None, store |-> [st EXCEPT ![req.key] = None]]}
       [] req.op = "get_object" ->
            IF IsSome(st[req.key])
            THEN {[ok |-> TRUE, cause |-> "", body |-> st[req.key], store |-> st]}
            ELSE {[ok |-> FALSE, cause |-> "NoSuchKey", body |-> None, store |-> st]})

\* a put that does not look at the local file before it sends
PutRequestUnchecked(path) ==
    Some([op |-> "put_object", bucket |-> Bucket, key |-> FileName(path), body |-> FromPath(path)])

\* a put that names the object after the directory of the file
PutRequestToDir(path) ==
    IF IsSome(FromPath(path))
    THEN Some([op |-> "put_object", bucket |-> Bucket, key |-> path.dir, body |-> FromPath(path)])
    ELSE None

\* put before its await: the put_object request it sends, if the file opens
PutRequest(path) ==
    IF IsSome(FromPath(path))
    THEN Some([op |-> "put_object", bucket |-> Bucket, key |-> FileName(path), body |-> FromPath(path)])
    ELSE None

\* a remove that asks for the object to learn whether it is there
RemoveRequestChecked(key) == [op |-> "get_object", bucket |-> Bucket, key |-> key, body |-> None]

\* remove before its await: the delete_object request
RemoveRequest(key) == [op |-> "delete_object", bucket |-> Bucket, key |-> key, body |-> None]

\* get_byte_stream before its await: the get_object request
GetByteStreamRequest(key) == [op |-> "get_object", bucket |-> Bucket, key |-> key, body |-> None]

\* a call that reports every failure of the backend as NotFound
CallResultAllNotFound(op, ans) ==
    IF ans.ok
    THEN IF op = "get_raw" THEN OkItem(ans.body.val) ELSE OkItem("unit")
    ELSE ErrItem(ErrorNotFound)

\* the result of a call from the answer to its request: map_ok(|_| ()) in put
\* and remove, map_ok(|output| output.body) in get_byte_stream, and
\* map_err(Error::s3_error) in all three
CallResult(op, ans) ==
    IF ans.ok
    THEN IF op = "get_raw" THEN OkItem(ans.body.val) ELSE OkItem("unit")
    ELSE ErrItem(S3Error(ans.cause))

\* the metric a call reports its duration under, if it reports one
MetricName(op) ==
    CASE op = "put" -> Some("file_store_put_duration")
      [] op = "remove" -> Some("file_store_remove_duration")
      [] OTHER -> None

InitFacade ==
    /\ IdleList
    /\ IdleCodec
    /\ IdleSource
    /\ IdleTwin
    /\ store \in {[k \in FileNames |-> IF k \in S THEN Some([dir |-> "old", name |-> k]) ELSE None] :
                        S \in SUBSET FileNames}
    /\ todo = MaxCalls
    /\ call = None
    /\ history = <<>>
    /\ sent = <<>>
    /\ samples = <<>>

\* put(path) is called: it returns NotFound when the file does not open,
\* and else sends put_object and awaits the answer
PutCall ==
    /\ call = None /\ todo > 0
    /\ \E path \in Paths :
        IF IsSome(PutRequest(path))
        THEN /\ call' = Some([op |-> "put", arg |-> path])
             /\ sent' = Append(sent, PutRequest(path).val)
             /\ UNCHANGED history
        ELSE /\ history' = Append(history, [op |-> "put", arg |-> path, answer |-> None,
                                            result |-> ErrItem(ErrorNotFound)])
             /\ UNCHANGED <<call, sent>>
    /\ todo' = todo - 1
    /\ UNCHANGED <<store, samples, lsVars, cdVars, srcVars, twin>>

\* remove(key) is called: it sends delete_object and awaits the answer
RemoveCall ==
    /\ call = None /\ todo > 0
    /\ \E key \in FileNames :
        /\ call' = Some([op |-> "remove", arg |-> key])
        /\ sent' = Append(sent, RemoveRequest(key))
    /\ todo' = todo - 1
    /\ UNCHANGED <<store, history, samples, lsVars, cdVars, srcVars, twin>>

\* get_raw(key) is called: get_byte_stream sends get_object and awaits the answer
GetRawCall ==
    /\ call = None /\ todo > 0
    /\ \E key \in FileNames :
        /\ call' = Some([op |-> "get_raw", arg |-> key])
        /\ sent' = Append(sent, GetByteStreamRequest(key))
    /\ todo' = todo - 1
    /\ UNCHANGED <<store, history, samples, lsVars, cdVars, srcVars, twin>>

\* the backend answers the request of the call that awaits it; put and remove
\* report their duration; the call returns
Answer ==
    /\ IsSome(call)
    /\ \E ans \in BackendAnswers(store, sent[Len(sent)]) :
        /\ store' = ans.store
        /\ history' = Append(history, [op |-> call.val.op, arg |-> call.val.arg,
                                       answer |-> Some([ok |-> ans.ok, cause |-> ans.cause]),
                                       result |-> CallResult(call.val.op, ans)])
    /\ samples' = IF IsSome(MetricName(call.val.op))
                  THEN RecordDuration(samples, MetricName(call.val.op).val)
                  ELSE samples
    /\ call' = None
    /\ UNCHANGED <<todo, sent, lsVars, cdVars, srcVars, twin>>

NextFacade == PutCall \/ RemoveCall \/ GetRawCall \/ Answer

SpecFacade == InitFacade /\ [][NextFacade]_vars

\* every entry point that sends requests to the backend; a client uses one of
\* them: it calls put, remove and get_raw, or it fetches through source or
\* source_unordered, or it lists
InitRequests == (InitList /\ lsArgs.before = None) \/ InitSource \/ InitFacade

Calls == todo > 0 \/ IsSome(call) \/ history # <<>>
Fetches == infos # <<>>
Lists == ~Calls /\ ~Fetches

NextRequests == (Lists /\ NextList) \/ (Fetches /\ NextSource) \/ (Calls /\ NextFacade)

SpecRequests == InitRequests /\ [][NextRequests]_vars

-----------------------------------------------------------------------------
(* Properties of the requests                                              *)

\* the calls of op the client has made: those that have returned and the one
\* that awaits the backend
CallsOf(op) ==
    Cardinality({i \in 1..Len(history) : history[i].op = op})
        + (IF IsSome(call) /\ call.val.op = op THEN 1 ELSE 0)

\* the requests of kind op sent to the backend
SentOf(op) == Cardinality({i \in 1..Len(sent) : sent[i].op = op})

\* the descriptors among the first n items of the input, in order
RECURSIVE DescriptorsOf(_, _)
DescriptorsOf(input, n) ==
    IF n = 0 THEN <<>>
    ELSE DescriptorsOf(input, n - 1) \o (IF input[n].kind = "ok" THEN <<input[n].val>> ELSE <<>>)

\* C13: every request is sent once. A listing sends one request per page: the
\* first without a token, each later one with the token of the answer before
\* it, and none after an answer that failed. source and source_unordered send
\* one get_object per descriptor taken from the input. put sends at most one
\* put_object, remove one delete_object and get_raw one get_object, per call.
C13_RequestsOnce ==
    /\ Len(ls.reqs) <= Len(served) + 1
    /\ \A k \in 1..Len(ls.reqs) :
          IF k = 1 THEN ls.reqs[k].continuation_token = None
          ELSE /\ served[k - 1].ok
               /\ IsSome(served[k - 1].next_continuation_token)
               /\ ls.reqs[k].continuation_token = served[k - 1].next_continuation_token
    /\ fan.gets = DescriptorsOf(infos, fan.inPos)
    /\ \A d \in Descs : Count(fan.gets, d) <= 1
    /\ SentOf("put_object") <= CallsOf("put")
    /\ SentOf("delete_object") = CallsOf("remove")
    /\ SentOf("get_object") = CallsOf("get_raw")
    /\ Len(sent) <= Len(history) + (IF IsSome(call) THEN 1 ELSE 0)

\* C13 witness: a listing has ended on the failure of its second page request
C13_Witness ==
    /\ ls.done /\ Len(ls.reqs) = 2 /\ Len(served) = 2 /\ ~served[2].ok

\* a request of source has failed, and the stream has ended with every
\* descriptor of the input requested
C13_WitnessSource ==
    /\ fan.done /\ Len(infos) = 3 /\ Len(fan.gets) = 3
    /\ \E d \in Descs : outcome[d] = "failed"

\* put and remove have each returned a failure of the backend
C13_WitnessFacade ==
    /\ Len(history) = 2 /\ Len(sent) = 2
    /\ history[1].op = "put" /\ history[1].result = ErrItem("BackendError")
    /\ history[2].op = "remove" /\ history[2].result = ErrItem("BackendError")

-----------------------------------------------------------------------------
(* More properties of the listing                                          *)

\* the places of ServedKeys whose key is not of the grammar
Undecodable == {i \in 1..Len(ServedKeys) : ~Matches(ServedKeys[i])}

C14_WitnessLaterPage ==
    /\ ls.done /\ NoPageFailed /\ Len(served) >= 2
    /\ Len(served[1].contents) = 1
    /\ ~Matches(served[1].contents[1])
    /\ ls.out # <<>> /\ ls.out[1] = OkItem(DecodeKey(served[2].contents[1]))

-----------------------------------------------------------------------------
(* Properties of the facade                                                *)

Returned == history'[Len(history')]

\* C16: a put of a local path that does not open returns NotFound, sends no
\* request to the backend and leaves the objects of the store as they are.
C16_PutUnopenable ==
    [][(/\ Len(history') = Len(history) + 1
        /\ Returned.op = "put"
        /\ ~IsSome(FromPath(Returned.arg)))
       => (/\ Returned.result = ErrItem("NotFound")
           /\ Returned.answer = None
           /\ call = None
           /\ sent' = sent
           /\ store' = store)]_vars

\* C16 witness: a put of a path that does not open has returned NotFound while
\* the store holds an object under the name of the file, and nothing was sent
C16_Witness ==
    /\ Len(history) = 1 /\ sent = <<>>
    /\ history[1].op = "put" /\ ~IsSome(FromPath(history[1].arg))
    /\ history[1].result = ErrItem("NotFound")
    /\ IsSome(store[FileName(history[1].arg)])

\* the calls of op that have returned
ReturnedOf(op) == Cardinality({i \in 1..Len(history) : history[i].op = op})

\* the samples the sink holds under the name
SamplesOf(name) == Cardinality({i \in 1..Len(samples) : samples[i] = name})

\* C17: every put and every remove that has returned has given the sink one
\* duration sample, whatever its result.
C17_OneSamplePerCall ==
    /\ SamplesOf("file_store_put_duration") = ReturnedOf("put")
    /\ SamplesOf("file_store_remove_duration") = ReturnedOf("remove")

-----------------------------------------------------------------------------
(* FileStore::stream_file: get_byte_stream(..).await.map(stream_source)    *)

\* get_byte_stream once its request has ended: the body, or the error
GetByteStream(d, outc) == IF outc[d] = "failed" THEN ErrItem("s3_error") ELSE OkItem(d)

\* the get_object requests stream_file sends for the descriptor d
StreamFileGets(d) == <<d>>

\* a stream_file that gives an empty stream when the request fails
StreamFileNoError(d, outc) ==
    IF GetByteStream(d, outc).kind = "ok" THEN OkItem(BodyItems(d, outc[d])) ELSE OkItem(<<>>)

\* the result of stream_file(d): the stream of the body's items, or the error
\* of the request
StreamFile(d, outc) ==
    IF GetByteStream(d, outc).kind = "ok"
    THEN OkItem(BodyItems(GetByteStream(d, outc).val, outc[d]))
    ELSE GetByteStream(d, outc)

\* what the caller of stream_file is given, item by item: the items of the
\* stream, or the error the call returns
Delivered(res) == IF res.kind = "ok" THEN res.val ELSE <<res>>

\* C18: stream_file(d) sends one get_object for d and delivers what
\* source_unordered(1, [d]) yields: the frames of d in order, or the same error.
C18_StreamFileAsOneWorker ==
    (/\ srcArgs = [mode |-> "unordered", workers |-> 1]
     /\ Len(infos) = 1 /\ infos[1].kind = "ok"
     /\ fan.done)
    => /\ fan.out = Delivered(StreamFile(infos[1].val, outcome))
       /\ fan.gets = StreamFileGets(infos[1].val)

\* C18 witness: source_unordered(1, [d]) has ended over a descriptor of two
\* frames, both yielded
C18_Witness ==
    /\ srcArgs = [mode |-> "unordered", workers |-> 1]
    /\ Len(infos) = 1 /\ infos[1].kind = "ok" /\ fan.done
    /\ outcome[infos[1].val] = "ok" /\ Len(fan.out) = 2

\* the same when the request has failed
C18_WitnessFailed ==
    /\ srcArgs = [mode |-> "unordered", workers |-> 1]
    /\ Len(infos) = 1 /\ infos[1].kind = "ok" /\ fan.done
    /\ outcome[infos[1].val] = "failed" /\ fan.out = <<ErrItem("s3_error")>>

\* the same when the body is cut off
C18_WitnessCorrupt ==
    /\ srcArgs = [mode |-> "unordered", workers |-> 1]
    /\ Len(infos) = 1 /\ infos[1].kind = "ok" /\ fan.done
    /\ outcome[infos[1].val] = "corrupt" /\ Len(fan.out) = 2

-----------------------------------------------------------------------------
(* More properties of the facade                                           *)

\* C19: a remove whose request reaches the backend returns success whether the
\* key had an object or not, and leaves the key without one and the other keys
\* as they were: a remove of a key without an object changes nothing, so two
\* removes leave the store as one does.
C19_RemoveIdempotent ==
    [][(/\ Len(history') = Len(history) + 1
        /\ Returned.op = "remove"
        /\ Returned.answer.val.cause # "Transport")
       => (/\ Returned.result = OkItem("unit")
           /\ store' = [store EXCEPT ![Returned.arg] = None]
           /\ (~IsSome(store[Returned.arg]) => store' = store))]_vars

\* C19 witness: a key was removed twice, the second time without an object
\* under it, both calls returned success, and another key has kept its object
C19_Witness ==
    /\ Len(history) = 2 /\ Len(sent) = 2
    /\ history[1].op = "remove" /\ history[2].op = "remove"
    /\ history[1].arg = history[2].arg
    /\ history[1].result = OkItem("unit") /\ history[2].result = OkItem("unit")
    /\ ~IsSome(store[history[1].arg])
    /\ \E k \in FileNames : IsSome(store[k])

-----------------------------------------------------------------------------
(* Laziness of the streams                                                 *)

\* the items of the pages before the page asked for last
PagesPulled ==
    Concat([i \in 1..(Len(ls.reqs) - 1) |-> FlatMapPage(served[i], lsArgs.after, lsArgs.before)])

\* the descriptors taken from the input whose items are still to come: their
\* request is in the buffer, or flat_map holds their body with items left
Outstanding ==
    {d \in Started :
        \/ d \in {fan.queue[i] : i \in 1..Len(fan.queue)}
        \/ IsSome(fan.cur) /\ fan.cur.val.file = d /\ fan.cur.val.items # <<>>}

\* a page is asked for only when every item of the pages before it has been
\* pulled; the input of the fan-out is never more than the window ahead of the
\* descriptors delivered in full
Lazy ==
    /\ IsSeqPrefix(PagesPulled, ls.out)
    /\ srcArgs.mode = "ordered" => Cardinality(Outstanding) <= 2
    /\ srcArgs.mode = "unordered" => Cardinality(Outstanding) <= srcArgs.workers

\* C20: the streams are driven by the pulls of their consumer: a stream that
\* has just been made has sent no request; a request is sent only in a step in
\* which the consumer pulls; list asks for a page only after every entry of the
\* page before has been pulled; source and source_unordered take no more than
\* 2, or the worker count, of descriptors beyond those delivered in full.
C20_PullDriven ==
    /\ ls.reqs = <<>> /\ fan.gets = <<>>
    /\ [][(ls.reqs' # ls.reqs => ListNext) /\ (fan.gets' # fan.gets => SourceNext)]_vars
    /\ []Lazy

\* C20 witness: list has asked for its second page, both entries of the first
\* page pulled; nothing has been asked beyond it
C20_Witness ==
    /\ Len(ls.reqs) = 2 /\ Len(served) = 1 /\ Len(served[1].contents) = 2
    /\ Len(ls.out) = 2

\* source_unordered with two workers has taken two descriptors of three, the
\* first being drained
C20_WitnessSource ==
    /\ srcArgs = [mode |-> "unordered", workers |-> 2]
    /\ Len(infos) = 3 /\ fan.inPos = 2 /\ Cardinality(Outstanding) = 2
    /\ fan.out # <<>>

-----------------------------------------------------------------------------
(* Abandoning a stream: the consumer drops it before its end. The streams   *)
(* are boxed combinators that own their futures: unfold the page request it *)
(* awaits, the buffer the get_object requests of its queue, flat_map the    *)
(* body it drains. Nothing is spawned, so the drop of the stream drops them. *)

\* a listing whose page request lives on after the stream
DropListDetached(s) == [s EXCEPT !.dropped = TRUE]

\* the list stream once dropped: the page request in flight and the pending
\* entries go with it
DropList(s) == [s EXCEPT !.dropped = TRUE, !.inflight = FALSE, !.resp = None, !.inner = <<>>]

\* a fan-out whose requests live on after the stream
DropSourceDetached(s) == [s EXCEPT !.dropped = TRUE]

\* the fan-out stream once dropped: the requests of the buffer and the body
\* being drained go with it
DropSource(s) == [s EXCEPT !.dropped = TRUE, !.queue = <<>>, !.ready = <<>>, !.cur = None]

\* the consumer drops the list stream before its end
ListDrop ==
    /\ ~ls.done /\ ~ls.dropped
    /\ ls' = DropList(ls)
    /\ UNCHANGED <<bucketKeys, lsArgs, served, collected, cdVars, srcVars, fcVars, twin>>

\* the consumer drops the fan-out stream before its end
SourceDrop ==
    /\ ~fan.done /\ ~fan.dropped
    /\ fan' = DropSource(fan)
    /\ UNCHANGED <<lsVars, cdVars, srcArgs, infos, outcome, fcVars, twin>>

InitAbandon == (InitList /\ lsArgs.before = None) \/ InitSource

NextAbandon ==
    \/ ~Fetches /\ ListNext
    \/ ~Fetches /\ PageResponse
    \/ ~Fetches /\ ListDrop
    \/ Fetches /\ SourceNext
    \/ Fetches /\ FetchDone
    \/ Fetches /\ SourceDrop

SpecAbandon == InitAbandon /\ [][NextAbandon]_vars

\* C21: once the consumer has dropped a list, source or source_unordered
\* stream, none of its requests is in flight, and no request is sent and no
\* answer taken for it afterwards.
C21_AbandonReleases ==
    /\ [](ls.dropped => ~ls.inflight)
    /\ [](fan.dropped => fan.queue = <<>>)
    /\ [][(ls.dropped => (ls.reqs' = ls.reqs /\ served' = served))
          /\ (fan.dropped => (fan.gets' = fan.gets /\ outcome' = outcome))]_vars

\* C21 witness: source was dropped with two requests sent, one of them ended
\* and one in flight, and frames yielded
C21_Witness ==
    /\ fan.dropped /\ srcArgs.mode = "ordered" /\ fan.out # <<>>
    /\ \E d \in Descs : d \in Started /\ outcome[d] = "none"
    /\ fan.inPos < Len(infos)

\* a listing was dropped while its second page request was in flight
C21_WitnessList ==
    /\ ls.dropped /\ Len(ls.reqs) = 2 /\ Len(served) = 1

-----------------------------------------------------------------------------
(* Properties of the keys                                                  *)

Prefixes == {PrefixX, PrefixXY, PrefixW}

\* the timestamps the key laws are tried on: those of the bucket, and some with
\* a carry between the digits
LawTs == (0..MaxTs) \cup {9, 10, 19, 20, 99}

\* decode(encode(prefix, t)) is (prefix, t), over the prefixes and timestamps
RoundTripLaw ==
    \A p \in Prefixes : \A ts \in LawTs :
        /\ Matches(EncodeKey(p, ts))
        /\ DecodeKey(EncodeKey(p, ts)) = [prefix |-> p, timestamp |-> ts, key |-> EncodeKey(p, ts)]

LexLeq(a, b) == a = b \/ LexLess(a, b)

\* for a fixed prefix encode is strictly monotonic in the timestamp
MonotonicLaw ==
    \A p \in Prefixes : \A t1, t2 \in LawTs :
        t1 < t2 => LexLess(EncodeKey(p, t1), EncodeKey(p, t2))

-----------------------------------------------------------------------------
(* The start_after hint                                                    *)

\* a prefix that begins with the prefix "x" and goes on with a byte that sorts
\* before the dot: "x,a"
PrefixXComma == <<120, 44, 97>>

\* a bucket with keys of the prefix "x" and a key of the prefix "x,a"
HintUniverse ==
    {EncodeKey(PrefixX, ts) : ts \in 0..MaxTs} \cup {EncodeKey(PrefixXComma, MaxTs)}

InitHint ==
    /\ bucketKeys \in {SortKeys(S) : S \in {T \in SUBSET HintUniverse : Cardinality(T) <= MaxObjects}}
    /\ lsArgs \in [prefix : {PrefixX}, after : OptAfter, before : {None}]
    /\ ls = ListStream0
    /\ served = <<>>
    /\ collected = [acc |-> <<>>, result |-> None]
    /\ IdleCodec
    /\ IdleSource
    /\ IdleFacade
    /\ IdleTwin

SpecHint == InitHint /\ [][NextList]_vars

\* what the listing yields when the backend is sent no start_after and gives
\* every key under the prefix once: the filters of list over all of them
FilterOnly ==
    FlatMapPage([ok |-> TRUE, contents |-> ListObjects(bucketKeys, lsArgs.prefix, None),
                 next_continuation_token |-> None],
                lsArgs.after, lsArgs.before)

\* C24: start_after only saves work: a listing with a lower bound that has
\* ended, the backend having given every entry after the boundary key once, has
\* yielded what the filters of list yield over all keys under the prefix.
C24_HintIsOptimisation ==
    (/\ ls.done /\ NoPageFailed
     /\ ServedKeys = ListObjects(bucketKeys, lsArgs.prefix, ls.reqs[1].start_after))
    => ls.out = FilterOnly

-----------------------------------------------------------------------------
(* A body that fails while it is read                                      *)

\* C25: when the body of a descriptor fails while it is read, that codec error
\* is the last item of the combined sequence, in source and in
\* source_unordered: no frame of another descriptor comes after it.
C25_BodyErrorIsLast ==
    \A i \in 1..Len(fan.out) : fan.out[i] = ErrItem("codec") => i = Len(fan.out)

-----------------------------------------------------------------------------
(* The cursor of a listing                                                 *)

\* the request list sends for its k-th page: the request built before the first
\* page with, from the second page on, the token of the answer to the page before
ThreadedRequest(k) ==
    [ListRequest(lsArgs) EXCEPT
        !.continuation_token = IF k = 1 THEN None ELSE served[k - 1].next_continuation_token]

\* C26: the first page request of a listing has no continuation token, every
\* later one has the token of the answer just before it, and bucket, prefix and
\* start_after are the same in all of them: the requests differ in the token
\* only.
C26_CursorThreading ==
    /\ \A k \in 1..Len(ls.reqs) : ls.reqs[k] = ThreadedRequest(k)
    /\ \A j, k \in 1..Len(ls.reqs) :
          /\ ls.reqs[j].bucket = ls.reqs[k].bucket
          /\ ls.reqs[j].prefix = ls.reqs[k].prefix
          /\ ls.reqs[j].start_after = ls.reqs[k].start_after

\* C26 witness: a listing with a lower bound has sent its third request, the
\* tokens of the first two answers being different
C26_Witness ==
    /\ Len(ls.reqs) = 3 /\ IsSome(lsArgs.after)
    /\ served[1].next_continuation_token # served[2].next_continuation_token
    /\ ls.reqs[3].continuation_token = served[2].next_continuation_token

-----------------------------------------------------------------------------
(* The order in which source_unordered drains                              *)

\* the requests that have ended and whose result the buffer still holds are the
\* last ones that ended
ReadyAreLatest ==
    /\ Len(fan.ready) <= Len(fan.ended)
    /\ fan.ready = SubSeq(fan.ended, Len(fan.ended) - Len(fan.ready) + 1, Len(fan.ended))

\* the result of the request that ended first among those the buffer holds
FirstReady ==
    IF outcome[Head(fan.ready)] = "failed" THEN ErrItem("s3_error") ELSE OkItem(Head(fan.ready))

\* when the buffer holds a request that has ended, its next poll hands on the
\* result of the one that ended first, or an error of the input
PullTakesReady ==
    fan.ready # <<>> =>
        LET r == PollBuffered(fan, srcArgs, infos, outcome)
        IN  r.ret = FirstReady \/ r.ret = ErrItem("input")

\* C27: source_unordered takes the results from its buffer in the order in
\* which the requests have ended, and a poll of the buffer never comes back
\* empty-handed while the buffer holds a request that has ended: an ended
\* request never waits for one that has not.
C27_ReadyFirst ==
    srcArgs.mode = "unordered" => (ReadyAreLatest /\ PullTakesReady)

\* C27 witness: source_unordered with two workers has yielded a frame of a
\* descriptor while the request of a descriptor before it in the input is
\* still in progress
C27_Witness ==
    /\ srcArgs.mode = "unordered" /\ srcArgs.workers = 2
    /\ \E a, b \in 1..Len(infos) :
          /\ a < b /\ infos[a].kind = "ok" /\ infos[b].kind = "ok"
          /\ outcome[infos[a].val] = "none"
          /\ \E i \in 1..Len(fan.queue) : fan.queue[i] = infos[a].val
          /\ \E i \in 1..Len(fan.out) : fan.out[i] = FrameItem(infos[b].val, 1)

-----------------------------------------------------------------------------
(* The end of a listing                                                    *)

\* list under a consumer that keeps pulling and a backend that answers every
\* request; the backend gives a last page or a failure by its MaxRequests-th
\* answer
InitPulled == InitHint

SpecListPulled ==
    InitPulled /\ [][NextList]_vars /\ WF_vars(ListNext) /\ WF_vars(PageResponse)

\* an answer that ends the listing: a failure, or a page without a token
Terminal(resp) == ~resp.ok \/ ~IsSome(resp.next_continuation_token)

LastAnswered == \E k \in 1..Len(served) : Terminal(served[k])

\* the requests sent are as many as the answers up to the first that ends the
\* listing, which is the last answer given
RequestsToFirstTerminal ==
    \A k \in 1..Len(served) : Terminal(served[k]) => (Len(ls.reqs) = k /\ Len(served) = k)

\* C28: pulled on, a listing ends once the backend has given a page without a
\* token or a failure; it has then sent as many requests as the position of
\* the first such answer, and it sends none after its end.
C28_ListEnds ==
    /\ LastAnswered ~> ls.done
    /\ <>ls.done
    /\ [](RequestsToFirstTerminal /\ (ls.done => LastAnswered))
    /\ [][ls.done => ls.reqs' = ls.reqs]_vars

\* C28 witness: a listing has ended after three pages, the third the first
\* without a token
C28_Witness ==
    /\ ls.done /\ Len(served) = 3 /\ Len(ls.reqs) = 3
    /\ served[3].ok /\ Terminal(served[3]) /\ ~Terminal(served[1]) /\ ~Terminal(served[2])

\* the same for a listing ended by the failure of its second request
C28_WitnessFailure ==
    /\ ls.done /\ Len(served) = 2 /\ Len(ls.reqs) = 2 /\ ~served[2].ok /\ ls.out # <<>>

-----------------------------------------------------------------------------
(* Two sequences of one store                                              *)

\* one store gives a listing and, beside it, a second listing or a source over
\* some of its objects; the bucket does not change while they are pulled
SharedKeys == {EncodeKey(PrefixX, 1), EncodeKey(PrefixX, 2)}

\* the source is over two objects with frames
SharedInputs == {<<OkItem(3), OkItem(2)>>}

SharedModes ==
    {[mode |-> "ordered", workers |-> 2], [mode |-> "unordered", workers |-> MaxWorkers]}

InitShared ==
    /\ bucketKeys = SortKeys(SharedKeys)
    /\ ls = ListStream0
    /\ served = <<>>
    /\ collected = [acc |-> <<>>, result |-> None]
    /\ IdleCodec
    /\ IdleFacade
    /\ \/ /\ lsArgs = [prefix |-> PrefixX, after |-> Some(1), before |-> None]
          /\ twin = Twin0
          /\ IdleSource
       \/ /\ lsArgs = [prefix |-> PrefixX, after |-> None, before |-> None]
          /\ IdleTwin
          /\ srcArgs \in SharedModes
          /\ infos \in SharedInputs
          /\ outcome = [d \in Descs |-> "none"]
          /\ fan = Source0

TwinAwaitsPage == twin.ls.inner = <<>> /\ twin.ls.inflight /\ ~IsSome(twin.ls.resp)

\* the consumer of the second listing pulls its next item
TwinNext ==
    /\ ~twin.ls.done
    /\ ~TwinAwaitsPage
    /\ twin' = [twin EXCEPT !.ls = PollList(twin.ls, twin.args).s]
    /\ UNCHANGED <<lsVars, cdVars, srcVars, fcVars>>

\* the backend answers the page request of the second listing
TwinResponse ==
    /\ TwinAwaitsPage
    /\ \E r \in PageResponses(bucketKeys, twin.ls.reqs[Len(twin.ls.reqs)], Len(twin.served)) :
        twin' = [twin EXCEPT !.ls.resp = Some(r), !.served = Append(@, r)]
    /\ UNCHANGED <<lsVars, cdVars, srcVars, fcVars>>

NextShared ==
    \/ ListNext
    \/ PageResponse
    \/ ~Fetches /\ TwinNext
    \/ ~Fetches /\ TwinResponse
    \/ Fetches /\ SourceNext
    \/ Fetches /\ FetchDone

SpecShared == InitShared /\ [][NextShared]_vars

\* what a listing yields by itself over the answers given to it
LoneItems(args, answers) ==
    Concat([k \in 1..Len(answers) |-> FlatMapPage(answers[k], args.after, args.before)])

\* what a listing sends by itself over the answers given to it
LoneRequest(args, answers, k) ==
    [ListRequest(args) EXCEPT
        !.continuation_token = IF k = 1 THEN None ELSE answers[k - 1].next_continuation_token]

\* a listing that has yielded, sent and ended as it does by itself
AsAlone(s, args, answers) ==
    /\ IsSeqPrefix(s.out, LoneItems(args, answers))
    /\ \A k \in 1..Len(s.reqs) : s.reqs[k] = LoneRequest(args, answers, k)
    /\ Len(answers) <= Len(s.reqs) /\ Len(s.reqs) <= Len(answers) + 1
    /\ s.done => /\ s.out = LoneItems(args, answers)
                 /\ answers # <<>> /\ Len(s.reqs) = Len(answers)
                 /\ Terminal(answers[Len(answers)])

\* the items of the result of the request of d
FetchedItems(d) ==
    IF outcome[d] = "failed" THEN <<ErrItem("s3_error")>> ELSE BodyItems(d, outcome[d])

\* the order in which a source by itself takes the results of requests that
\* have ended: source that of its input, source_unordered that of their ending
TakenInOrder ==
    IF srcArgs.mode = "ordered"
    THEN LET Known(x) == outcome[x.val] # "none"
             Val(x) == x.val
             known == SelectSeq(infos, Known)
         IN  [i \in 1..Len(known) |-> known[i].val]
    ELSE fan.ended

\* what a source yields by itself over the results given to it
LoneFrames == Concat([i \in 1..Len(TakenInOrder) |-> FetchedItems(TakenInOrder[i])])

\* C29: a listing pulled in any interleaving with a second listing or with a
\* source of the same store, over a bucket that does not change, yields and
\* sends what it does by itself over the answers given to it, and so does the
\* second listing, and so does the source over the results given to it; the
\* cursor of each listing is its own, and every request names the bucket of the
\* store.
C29_Independent ==
    /\ AsAlone(ls, lsArgs, served)
    /\ AsAlone(twin.ls, twin.args, twin.served)
    /\ IsSeqPrefix(fan.out, LoneFrames)
    /\ fan.done => fan.out = LoneFrames
    /\ fan.gets = DescriptorsOf(infos, fan.inPos)
    /\ \A k \in 1..Len(ls.reqs) : ls.reqs[k].bucket = Bucket
    /\ \A k \in 1..Len(twin.ls.reqs) : twin.ls.reqs[k].bucket = Bucket

\* C29 witness: two listings with different lower bounds have both ended, the
\* second having sent its second request before the first sent its own
C29_Witness ==
    /\ ls.done /\ twin.ls.done /\ lsArgs # twin.args
    /\ Len(ls.reqs) >= 2 /\ Len(twin.ls.reqs) >= 2
    /\ ls.out # twin.ls.out /\ served # twin.served

\* a listing and a source have both ended, each having yielded items
C29_WitnessSource ==
    /\ ls.done /\ fan.done /\ ls.out # <<>> /\ fan.out # <<>> /\ Len(ls.reqs) >= 2

-----------------------------------------------------------------------------
(* The frames of one descriptor in the output                              *)

\* the i-th item of the output is a frame of the descriptor d
FrameOf(i, d) == fan.out[i].kind = "ok" /\ fan.out[i].val.file = d

\* C30: in source and in source_unordered the frames of one descriptor stand
\* together in the output: between two frames of a descriptor there is nothing
\* but frames of that descriptor, whatever requests end in the meantime.
C30_FramesContiguous ==
    \A d \in Descs : \A i, k \in 1..Len(fan.out) :
        (i < k /\ FrameOf(i, d) /\ FrameOf(k, d)) => \A j \in i..k : FrameOf(j, d)

\* the first frame of a descriptor has been yielded, its body holds more, and
\* the request of another descriptor has ended and waits in the buffer
MidBlock ==
    /\ IsSome(fan.cur) /\ fan.cur.val.file = 3 /\ fan.cur.val.items # <<>>
    /\ fan.out # <<>> /\ fan.out[Len(fan.out)] = FrameItem(3, 1)
    /\ fan.ready = <<2>>

\* C30 witness: source_unordered is in the middle of the frames of a descriptor
\* while the request of another one has ended
C30_Witness == srcArgs.mode = "unordered" /\ srcArgs.workers >= 2 /\ MidBlock

\* the same for source
C30_WitnessOrdered == srcArgs.mode = "ordered" /\ MidBlock

-----------------------------------------------------------------------------
(* An error of the input of source                                         *)

\* the frames of the descriptors that stand before position p of the input
FramesBefore(p) ==
    Concat([i \in 1..(p - 1) |-> [k \in 1..NFrames(infos[i].val) |-> FrameItem(infos[i].val, k)]])

\* C31: when the input of source yields an error after the descriptors
\* d1..dk, whose requests and bodies are sound, the output has all frames of
\* d1..dk, in order, before the error item.
C31_InputErrorInOrder ==
    (srcArgs.mode = "ordered" /\ \A d \in Descs : outcome[d] \in {"none", "ok"}) =>
        \A p \in 1..Len(infos) : \A i \in 1..Len(fan.out) :
            (infos[p].kind = "err" /\ fan.out[i] = ErrItem("input"))
                => SubSeq(fan.out, 1, i - 1) = FramesBefore(p)

-----------------------------------------------------------------------------
(* The prefix of the listed descriptors                                    *)

\* C32: every descriptor a listing yields has the prefix the listing was asked
\* for: a key that begins with the prefix and decodes to a longer one is not
\* yielded.
C32_ListedPrefix ==
    \A i \in 1..Len(ls.out) : ls.out[i].kind = "ok" => ls.out[i].val.prefix = lsArgs.prefix

-----------------------------------------------------------------------------
(* FileStore::get: Ok(stream_source(self.get_raw(key).await?))              *)

\* a get that gives a stream whatever get_raw returns
GetResultAlwaysStream(raw) == OkItem([stream |-> IF raw.kind = "ok" THEN raw.val ELSE raw.error])

\* the result of get from the result of get_raw: the stream of stream_source
\* over the body, or the error of get_raw
GetResult(raw) == IF raw.kind = "ok" THEN OkItem([stream |-> raw.val]) ELSE raw

\* the bucket holds one object; its body is the frames cdFrames, written with
\* their length prefixes
InitGet ==
    /\ IdleList
    /\ IdleSource
    /\ IdleTwin
    /\ store \in {[k \in FileNames |-> IF k = n THEN Some([dir |-> "old", name |-> k]) ELSE None] :
                        n \in FileNames}
    /\ todo = 1
    /\ call = None
    /\ history = <<>>
    /\ sent = <<>>
    /\ samples = <<>>
    /\ cdFrames \in Bodies
    /\ cdArrived = 0
    /\ cdEnded = "no"
    /\ framed = Framed0
    /\ cdOut = <<>>
    /\ cdDone = FALSE

\* get(key) is called: get_raw sends get_object and awaits the answer
GetCall ==
    /\ call = None /\ todo > 0
    /\ \E key \in FileNames :
        /\ call' = Some([op |-> "get", arg |-> key])
        /\ sent' = Append(sent, GetByteStreamRequest(key))
    /\ todo' = todo - 1
    /\ UNCHANGED <<store, history, samples, lsVars, cdVars, srcVars, twin>>

\* the backend answers the request of get_raw; get returns
GetAnswer ==
    /\ IsSome(call)
    /\ \E ans \in BackendAnswers(store, sent[Len(sent)]) :
        /\ store' = ans.store
        /\ history' = Append(history, [op |-> call.val.op, arg |-> call.val.arg,
                                       answer |-> Some([ok |-> ans.ok, cause |-> ans.cause]),
                                       result |-> GetResult(CallResult("get_raw", ans))])
    /\ call' = None
    /\ UNCHANGED <<todo, sent, samples, lsVars, cdVars, srcVars, twin>>

\* get has returned a stream to its caller
HasStream == history # <<>> /\ history[Len(history)].result.kind = "ok"

NextGet ==
    \/ GetCall
    \/ GetAnswer
    \/ HasStream /\ Arrive
    \/ HasStream /\ BodyEnds
    \/ HasStream /\ CodecNext

SpecGet == InitGet /\ [][NextGet]_vars

\* nothing of the codec pipeline has run
NoSequence == framed = Framed0 /\ cdOut = <<>> /\ cdArrived = 0 /\ cdEnded = "no" /\ ~cdDone

\* C33: get sends the request of get_raw before anything of the codec pipeline
\* runs; when the request fails get returns that error and there is no
\* sequence; when it succeeds get returns a stream, whatever the body holds,
\* and a failure of decompression or framing is an item of that stream, its
\* last one.
C33_GetThenCodec ==
    /\ (history = <<>>) => NoSequence
    /\ Len(sent) <= 1 /\ Len(history) <= Len(sent)
    /\ \A i \in 1..Len(history) :
          /\ sent[i] = GetByteStreamRequest(history[i].arg)
          /\ IF history[i].answer.val.ok
             THEN history[i].result = OkItem([stream |-> store[history[i].arg].val])
             ELSE /\ history[i].result = ErrItem(S3Error(history[i].answer.val.cause))
                  /\ NoSequence
    /\ \A i \in 1..Len(cdOut) : cdOut[i] = ErrItem("codec") => i = Len(cdOut)

\* C33 witness: get has returned a stream, and the stream has yielded a frame
\* and then an error, and has ended
C33_Witness ==
    /\ HasStream /\ cdDone /\ Len(cdOut) = 2
    /\ cdOut[1].kind = "ok" /\ cdOut[2] = ErrItem("codec")

\* get has returned the error of a request that failed
C33_WitnessFailed ==
    /\ history # <<>> /\ history[1].op = "get" /\ history[1].result = ErrItem("NotFound")

-----------------------------------------------------------------------------
(* FileStore::put of a file that opens                                     *)

\* the put_object requests sent so far
PutsSent == SentOf("put_object")

\* the calls of put with a file that opens, returned or awaiting the backend
PutsOfFiles ==
    Cardinality({i \in 1..Len(history) : history[i].op = "put" /\ IsSome(FromPath(history[i].arg))})
        + (IF IsSome(call) /\ call.val.op = "put" THEN 1 ELSE 0)

\* the request of the put that awaits the backend is the last one sent: to the
\* bucket of the store, under the base name of the file, with its content
PutRequestSent ==
    (IsSome(call) /\ call.val.op = "put") =>
        sent[Len(sent)] = [op |-> "put_object", bucket |-> Bucket,
                           key |-> call.val.arg.name, body |-> Some(call.val.arg)]

\* a put of a file that opens returns
PutReturns ==
    /\ Len(history') = Len(history) + 1
    /\ Returned.op = "put"
    /\ IsSome(FromPath(Returned.arg))

\* C34: a put of a local file that opens sends one put_object request, to the
\* bucket of the store, with the base name of the path as key and the content
\* of the file as body; it returns success when the request succeeds and
\* BackendError when it fails; the objects under other keys stay as they are.
C34_PutUploads ==
    /\ [](PutsSent = PutsOfFiles /\ PutRequestSent)
    /\ [][PutReturns =>
            (/\ IsSome(call) /\ call.val.arg = Returned.arg
             /\ sent' = sent
             /\ IF Returned.answer.val.ok
                THEN /\ Returned.result = OkItem("unit")
                     /\ store' = [store EXCEPT ![Returned.arg.name] = Some(Returned.arg)]
                ELSE /\ Returned.result = ErrItem("BackendError")
                     /\ store' = store
             /\ \A k \in FileNames \ {Returned.arg.name} : store'[k] = store[k])]_vars

\* C34 witness: a put of a file that opens has returned success, the store now
\* holding the content of the file under its base name in place of an older
\* object, beside the object of another key
C34_Witness ==
    /\ Len(history) = 1 /\ Len(sent) = 1
    /\ history[1].op = "put" /\ history[1].result = OkItem("unit")
    /\ history[1].arg.dir = "new"
    /\ store[history[1].arg.name] = Some(history[1].arg)
    /\ \E k \in FileNames \ {history[1].arg.name} : store[k] = Some([dir |-> "old", name |-> k])

\* a put of a file that opens has returned BackendError
C34_WitnessFailed ==
    /\ Len(history) = 1 /\ Len(sent) = 1
    /\ history[1].op = "put" /\ history[1].result = ErrItem("BackendError")
    /\ store[history[1].arg.name] # Some(history[1].arg)

====
